---- MODULE Spec2Model ----
(***************************************************************************)
(* The event bus of ex3.py: EventBus.publish / subscribe / add_filter and  *)
(* _should_handle, run on one asyncio event loop.  A publish coroutine     *)
(* runs without interruption until the handler it awaits suspends; only    *)
(* then can other coroutines (another publish, a subscribe, an add_filter) *)
(* run.                                                                    *)
(***************************************************************************)
EXTENDS Integers, Sequences, FiniteSets, TLC

\* ---------------------------------------------------------------- bounds
MaxSubs == 2        \* subscribe calls over the bus's lifetime
MaxFilters == 1     \* add_filter calls over the bus's lifetime
NumPubs == 2        \* publish calls in flight at once
MaxPredicates == 2  \* predicates in a category's filter list (FilterSpec)
MaxPlugins == 2     \* plugins in the manager's list (PluginSpec)

Pubs == 1..NumPubs

\* ---------------------------------------------------- events and classes
\* The Event classes; every sample class derives directly from Event.
\* (DataChangeEvent is left out: it differs from UserActionEvent in name only.)
Types == {"Event", "UserActionEvent", "SystemAlertEvent"}

\* The classes an instance of class t is an instance of (its MRO).
Bases(t) == IF t = "Event" THEN {"Event"} ELSE {t, "Event"}

\* type(event) is event.type; priority is data.get('priority', 0).
Events ==
    { [type |-> "Event", priority |-> 0],
      [type |-> "UserActionEvent", priority |-> 0],
      [type |-> "SystemAlertEvent", priority |-> 5],
      [type |-> "SystemAlertEvent", priority |-> 2] }

NoEvent == [type |-> "none", priority |-> 0]

isinstance(e, t) == t \in Bases(e.type)

\* ------------------------------------------------------------ subscribers
\* The three sample handlers, Faulty: an EventSubscriber whose handle
\* raises at once, and BadCheck: an EventSubscriber whose can_handle raises.
Subscribers ==
    {"LoggingHandler", "UserActionHandler", "AlertHandler", "Faulty", "BadCheck"}

\* s.can_handle(e) raises an Exception.
can_handle_raises(s, e) == s = "BadCheck"

can_handle(s, e) ==
    CASE s = "LoggingHandler" -> TRUE
      [] s = "UserActionHandler" -> isinstance(e, "UserActionEvent")
      [] s = "AlertHandler" -> isinstance(e, "SystemAlertEvent")
      [] s = "BadCheck" -> FALSE
      [] OTHER -> TRUE

\* What a call of s.handle(e) can do before it returns control:
\*   "ok"      return normally
\*   "suspend" reach an await that suspends (asyncio.sleep)
\*   "raise"   raise an Exception
\*   "abort"   raise a BaseException that is not an Exception
\*             (asyncio.CancelledError, KeyboardInterrupt, SystemExit)
HandleStart(s) ==
    CASE s = "LoggingHandler" -> {"ok"}
      [] s = "UserActionHandler" -> {"ok"}
      [] s = "AlertHandler" -> {"suspend"}
      [] s = "BadCheck" -> {"ok"}
      [] OTHER -> {"raise", "abort"}

\* What a suspended s.handle(e) can do when it is resumed (AlertHandler
\* is the one handler that suspends: its sleep ends and it returns).
HandleResume(s) == {"ok"}

\* ---------------------------------------------------------------- filters
\* PriorityAbove3 is main's lambda, PriorityAbove1 the same lambda with
\* threshold 1; Raising is a predicate that raises.
Filters == {"PriorityAbove3", "PriorityAbove1", "Raising"}

ApplyFilter(f, e) ==
    CASE f = "PriorityAbove3" -> IF e.priority > 3 THEN "true" ELSE "false"
      [] f = "PriorityAbove1" -> IF e.priority > 1 THEN "true" ELSE "false"
      [] OTHER -> "raise"

\* all(filter_func(event) for filter_func in fs): left to right, stops at
\* the first False; a raising predicate raises out of all().
all_Any(fs, e) ==
    IF fs = <<>> \/ \E k \in 1..Len(fs) : ApplyFilter(fs[k], e) = "true"
    THEN "true" ELSE "false"

RECURSIVE all(_, _)
all(fs, e) ==
    IF fs = <<>> THEN "true"
    ELSE LET r == ApplyFilter(Head(fs), e)
         IN IF r = "true" THEN all(Tail(fs), e) ELSE r

\* The predicates all() calls, in order.
RECURSIVE Evaluated(_, _)
Evaluated(fs, e) ==
    IF fs = <<>> THEN <<>>
    ELSE IF ApplyFilter(Head(fs), e) = "true"
         THEN <<Head(fs)>> \o Evaluated(Tail(fs), e)
         ELSE <<Head(fs)>>

\* The subscribe and add_filter calls made on the bus: main's three, and
\* registrations of the same handlers and predicates under other classes.
SubscribeCalls ==
    { <<"Event", "LoggingHandler">>,
      <<"SystemAlertEvent", "AlertHandler">>,
      <<"SystemAlertEvent", "UserActionHandler">>,
      <<"SystemAlertEvent", "Faulty">>,
      <<"SystemAlertEvent", "BadCheck">>,
      <<"UserActionEvent", "LoggingHandler">> }

FilterCalls ==
    { <<"SystemAlertEvent", "PriorityAbove3">>,
      <<"SystemAlertEvent", "Raising">>,
      <<"Event", "PriorityAbove3">> }

\* ------------------------------------------------------------------ state
VARIABLES
    subscribers,  \* self._subscribers: class -> list of subscribers
    filters,      \* self._filters: class -> list of predicates
    pc,           \* per publish: "idle", "awaiting", "done", "raised"
    event,        \* per publish: its event
    idx,          \* per publish: position of the list iterator of the for loop
    log,          \* per publish: the calls it made, in order
    printed,      \* per publish: what line 49 printed
    pm            \* the PluginManager of ex4.py and its run_analysis call

vars == <<subscribers, filters, pc, event, idx, log, printed, pm>>

NoList == [t \in {} |-> <<>>]

\* A PluginManager with the plugin list l, run_analysis not yet called:
\* results is the dictionary run_analysis builds (name -> key -> value),
\* tasks the outcome of each analyze_async coroutine once it has run.
Manager(l) ==
    [plugins |-> l, pc |-> "idle", results |-> NoList,
     tasks |-> [i \in 1..Len(l) |-> "pending"]]

Init ==
    /\ subscribers = NoList
    /\ filters = NoList
    /\ pc = [p \in Pubs |-> "idle"]
    /\ event = [p \in Pubs |-> NoEvent]
    /\ idx = [p \in Pubs |-> 0]
    /\ log = [p \in Pubs |-> <<>>]
    /\ printed = [p \in Pubs |-> <<>>]
    /\ pm = Manager(<<>>)

\* Mutant of Append2: d[k].insert(0, x).
Append2_Prepend(d, k, x) ==
    IF k \in DOMAIN d
    THEN [d EXCEPT ![k] = <<x>> \o @]
    ELSE [t \in DOMAIN d \cup {k} |-> IF t = k THEN <<x>> ELSE d[t]]

\* Mutant of Append2: d[k] = [] is done whether or not k is a key of d.
Append2_Overwrite(d, k, x) ==
    [t \in DOMAIN d \cup {k} |-> IF t = k THEN <<x>> ELSE d[t]]

\* d[k].append(x), creating d[k] = [] when k is not a key of d.
Append2(d, k, x) ==
    IF k \in DOMAIN d
    THEN [d EXCEPT ![k] = Append(@, x)]
    ELSE [t \in DOMAIN d \cup {k} |-> IF t = k THEN <<x>> ELSE d[t]]

Get(d, k) == IF k \in DOMAIN d THEN d[k] ELSE <<>>

RECURSIVE Total(_, _)
Total(d, ks) ==
    IF ks = {} THEN 0
    ELSE LET k == CHOOSE x \in ks : TRUE IN Len(d[k]) + Total(d, ks \ {k})

\* The positions of log L that record `op` for candidate number i.
At(L, op, i) == {k \in 1..Len(L) : L[k].op = op /\ L[k].i = i}

\* ------------------------------------------------------------- operations
Entry(op, i, who) == [op |-> op, i |-> i, who |-> who]

\* Mutant of should_handle: the predicates registered for every class are
\* applied, not only those of type(event).
should_handle_AllCategories(e, s) ==
    IF can_handle_raises(s, e) THEN "raise"
    ELSE IF ~can_handle(s, e) THEN "false"
    ELSE IF \E t \in DOMAIN filters : all(filters[t], e) = "raise" THEN "raise"
    ELSE IF \E t \in DOMAIN filters : all(filters[t], e) = "false" THEN "false"
    ELSE "true"

\* Mutant of should_handle: the predicates registered for type(event) and
\* for each of its base classes are applied.
should_handle_Hierarchical(e, s) ==
    LET lists == {filters[t] : t \in Bases(e.type) \cap DOMAIN filters}
    IN IF can_handle_raises(s, e) THEN "raise"
       ELSE IF ~can_handle(s, e) THEN "false"
       ELSE IF \E fs \in lists : all(fs, e) = "raise" THEN "raise"
       ELSE IF \E fs \in lists : all(fs, e) = "false" THEN "false"
       ELSE "true"

\* Mutant of should_handle: a predicate that raises counts as passed.
should_handle_FilterErrorPasses(e, s) ==
    IF can_handle_raises(s, e) THEN "raise"
    ELSE IF ~can_handle(s, e) THEN "false"
    ELSE IF e.type \in DOMAIN filters /\ all(filters[e.type], e) = "false" THEN "false"
    ELSE "true"

\* Mutant of should_handle: an error raised by can_handle is swallowed and
\* the subscriber counts as willing.
should_handle_CheckErrorPasses(e, s) ==
    IF ~can_handle_raises(s, e) /\ ~can_handle(s, e) THEN "false"
    ELSE IF e.type \in DOMAIN filters THEN all(filters[e.type], e)
    ELSE "true"

\* _should_handle: the subscriber's own check first, then the predicates
\* registered for type(event).  "true", "false" or "raise".
should_handle(e, s) ==
    IF can_handle_raises(s, e) THEN "raise"
    ELSE IF ~can_handle(s, e) THEN "false"
    ELSE IF e.type \in DOMAIN filters THEN all(filters[e.type], e)
    ELSE "true"

\* Mutant of ShouldHandleCalls: the predicates are applied before the
\* subscriber's own check is made.
ShouldHandleCalls_FiltersFirst(e, s, i) ==
    (IF e.type \in DOMAIN filters
     THEN LET ev == Evaluated(filters[e.type], e)
          IN [k \in 1..Len(ev) |-> Entry("filter", i, ev[k])]
     ELSE <<>>)
    \o <<Entry("can_handle", i, s)>>

\* The calls _should_handle makes for candidate number i.
ShouldHandleCalls(e, s, i) ==
    <<Entry("can_handle", i, s)>> \o
    (IF can_handle(s, e) /\ e.type \in DOMAIN filters
     THEN LET ev == Evaluated(filters[e.type], e)
          IN [k \in 1..Len(ev) |-> Entry("filter", i, ev[k])]
     ELSE <<>>)

\* Mutant of Candidates: each subscriber once (iteration over the distinct
\* subscribers of the list).
Candidates_Unique(e) ==
    LET lst == subscribers[e.type]
        first == {k \in 1..Len(lst) : \A j \in 1..(k - 1) : lst[j] # lst[k]}
    IN SelectSeq([k \in 1..Len(lst) |-> IF k \in first THEN lst[k] ELSE "dup"],
                 LAMBDA x : x # "dup")

\* The list publish iterates over: self._subscribers[type(event)].  The
\* for loop holds the list object itself, which subscribe appends to in
\* place, and its iterator compares its position with the list's current
\* length at every turn.
Candidates(e) == subscribers[e.type]

\* Mutant of Caught: no try/except around the handler.
Caught_Nothing(kind) == FALSE

\* "except Exception" catches an Exception, not another BaseException.
Caught(kind) == kind = "raise"

\* No publish is at its return: a publish that has finished hands its
\* result to its caller before anything else runs.
Quiet == \A p \in Pubs : pc[p] \notin {"done", "raised"}

\* subscribe(event_type, subscriber)
subscribe(t, s) ==
    /\ Quiet
    /\ Total(subscribers, DOMAIN subscribers) < MaxSubs
    /\ subscribers' = Append2(subscribers, t, s)
    /\ UNCHANGED <<filters, pc, event, idx, log, printed, pm>>

\* add_filter(event_type, filter_func)
add_filter(t, f) ==
    /\ Quiet
    /\ Total(filters, DOMAIN filters) < MaxFilters
    /\ filters' = Append2(filters, t, f)
    /\ UNCHANGED <<subscribers, pc, event, idx, log, printed, pm>>

Result(c, i, lg, pr) == [pc |-> c, idx |-> i, log |-> lg, printed |-> pr]

\* The for loop of publish, lines 44-49, run from iterator position i with
\* log lg and output pr up to the point where the coroutine gives up the
\* event loop: the handler it awaits suspends, publish returns, or an
\* exception leaves publish.  No other coroutine runs in between, so the
\* lists are those of the current state throughout.  The set of the
\* possible results.
RECURSIVE Loop(_, _, _, _), After(_, _, _, _, _, _)
Loop(e, i, lg, pr) ==
    IF i >= Len(Candidates(e))
    THEN {Result("done", i, lg, pr)}
    ELSE LET s == Candidates(e)[i + 1]
             sh == should_handle(e, s)
             lg1 == lg \o ShouldHandleCalls(e, s, i + 1)
         IN CASE sh = "false" -> Loop(e, i + 1, lg1, pr)
              [] sh = "raise" -> After(e, i + 1, s, "raise", lg1, pr)
              [] OTHER ->
                   UNION { After(e, i + 1, s, kind,
                                 lg1 \o <<Entry("handle", i + 1, s)>>, pr)
                           : kind \in HandleStart(s) }

\* Mutant of After: the except clause leaves the loop (a return after the
\* print).
After_StopOnError(e, i, s, kind, lg, pr) ==
    CASE kind = "ok" -> Loop(e, i, lg \o <<Entry("return", i, s)>>, pr)
      [] kind = "suspend" -> {Result("awaiting", i, lg, pr)}
      [] OTHER ->
           IF Caught(kind)
           THEN {Result("done", i, lg \o <<Entry(kind, i, s)>>, Append(pr, Entry("error", i, s)))}
           ELSE {Result("raised", i, lg \o <<Entry(kind, i, s)>>, pr)}

\* Mutant of After: a candidate whose handle failed is tried a second time.
After_Retry(e, i, s, kind, lg, pr) ==
    CASE kind = "ok" -> Loop(e, i, lg \o <<Entry("return", i, s)>>, pr)
      [] kind = "suspend" -> {Result("awaiting", i, lg, pr)}
      [] OTHER ->
           IF Caught(kind)
           THEN Loop(e, IF Cardinality(At(lg, "handle", i)) < 2 THEN i - 1 ELSE i,
                     lg \o <<Entry(kind, i, s)>>, Append(pr, Entry("error", i, s)))
           ELSE {Result("raised", i, lg \o <<Entry(kind, i, s)>>, pr)}

\* How publish goes on after candidate i (subscriber s) did `kind`.
After_FireAndForget(e, i, s, kind, lg, pr) ==
    CASE kind = "ok" -> Loop(e, i, lg \o <<Entry("return", i, s)>>, pr)
      [] kind = "suspend" -> Loop(e, i, lg, pr)
      [] OTHER ->
           IF Caught(kind)
           THEN Loop(e, i, lg \o <<Entry(kind, i, s)>>, Append(pr, Entry("error", i, s)))
           ELSE {Result("raised", i, lg \o <<Entry(kind, i, s)>>, pr)}

After_StopOnSuccess(e, i, s, kind, lg, pr) ==
    CASE kind = "ok" -> {Result("done", i, lg \o <<Entry("return", i, s)>>, pr)}
      [] kind = "suspend" -> {Result("awaiting", i, lg, pr)}
      [] OTHER ->
           IF Caught(kind)
           THEN Loop(e, i, lg \o <<Entry(kind, i, s)>>, Append(pr, Entry("error", i, s)))
           ELSE {Result("raised", i, lg \o <<Entry(kind, i, s)>>, pr)}

After(e, i, s, kind, lg, pr) ==
    CASE kind = "ok" -> Loop(e, i, lg \o <<Entry("return", i, s)>>, pr)
      [] kind = "suspend" -> {Result("awaiting", i, lg, pr)}
      [] OTHER ->
           IF Caught(kind)
           THEN Loop(e, i, lg \o <<Entry(kind, i, s)>>, Append(pr, Entry("error", i, s)))
           ELSE {Result("raised", i, lg \o <<Entry(kind, i, s)>>, pr)}

\* Mutant of Set: the position in the list is kept on the bus, one for
\* all publish calls, not in the for loop of each call.
Set_SharedPosition(p, r) ==
    /\ pc' = [pc EXCEPT ![p] = r.pc]
    /\ idx' = [q \in Pubs |-> r.idx]
    /\ log' = [log EXCEPT ![p] = r.log]
    /\ printed' = [printed EXCEPT ![p] = r.printed]

\* The state of publish p after a run of its loop.
Set(p, r) ==
    /\ pc' = [pc EXCEPT ![p] = r.pc]
    /\ idx' = [idx EXCEPT ![p] = r.idx]
    /\ log' = [log EXCEPT ![p] = r.log]
    /\ printed' = [printed EXCEPT ![p] = r.printed]

\* Mutant of publish: no "not in" test, so a class without subscribers
\* makes self._subscribers[event_type] raise KeyError.
publish_KeyError(p, e) ==
    /\ Quiet
    /\ pc[p] = "idle"
    /\ \A q \in Pubs : q < p => pc[q] # "idle"
    /\ event' = [event EXCEPT ![p] = e]
    /\ IF e.type \notin DOMAIN subscribers
       THEN /\ pc' = [pc EXCEPT ![p] = "raised"]
            /\ UNCHANGED <<idx, log, printed>>
       ELSE \E r \in Loop(e, 0, <<>>, <<>>) : Set(p, r)
    /\ UNCHANGED <<subscribers, filters, pm>>

\* publish(event), from the call to the first suspension or the return.
\* A call takes the first free place in Pubs.
publish(p, e) ==
    /\ Quiet
    /\ pc[p] = "idle"
    /\ \A q \in Pubs : q < p => pc[q] # "idle"
    /\ event' = [event EXCEPT ![p] = e]
    /\ IF e.type \notin DOMAIN subscribers
       THEN /\ pc' = [pc EXCEPT ![p] = "done"]
            /\ UNCHANGED <<idx, log, printed>>
       ELSE \E r \in Loop(e, 0, <<>>, <<>>) : Set(p, r)
    /\ UNCHANGED <<subscribers, filters, pm>>

\* The event loop resumes the handler publish p awaits; publish runs on to
\* the next suspension or the return.
Resume(p) ==
    /\ Quiet
    /\ pc[p] = "awaiting"
    /\ LET s == Candidates(event[p])[idx[p]]
       IN \E kind \in HandleResume(s) :
            \E r \in After(event[p], idx[p], s, kind, log[p], printed[p]) : Set(p, r)
    /\ UNCHANGED <<subscribers, filters, event, pm>>

\* The task running publish p is cancelled while its handler is suspended:
\* CancelledError is raised at the handler's await and leaves handle.
Cancel(p) ==
    /\ Quiet
    /\ pc[p] = "awaiting"
    /\ LET s == Candidates(event[p])[idx[p]]
       IN \E r \in After(event[p], idx[p], s, "cancelled", log[p], printed[p]) : Set(p, r)
    /\ UNCHANGED <<subscribers, filters, event, pm>>

\* The caller's "await self.event_bus.publish(event)" completes: it gets
\* the return or the exception, and the coroutine is gone.
Return(p) ==
    /\ pc[p] \in {"done", "raised"}
    /\ pc' = [pc EXCEPT ![p] = "idle"]
    /\ event' = [event EXCEPT ![p] = NoEvent]
    /\ idx' = [idx EXCEPT ![p] = 0]
    /\ log' = [log EXCEPT ![p] = <<>>]
    /\ printed' = [printed EXCEPT ![p] = <<>>]
    /\ UNCHANGED <<subscribers, filters, pm>>

Next ==
    \/ \E c \in SubscribeCalls : subscribe(c[1], c[2])
    \/ \E c \in FilterCalls : add_filter(c[1], c[2])
    \/ \E p \in Pubs, e \in Events : publish(p, e)
    \/ \E p \in Pubs : Resume(p)
    \/ \E p \in Pubs : Cancel(p)
    \/ \E p \in Pubs : Return(p)

Spec == Init /\ [][Next]_vars

\* One publish call, standing for any: the calls are interchangeable.
Watched == CHOOSE p \in Pubs : TRUE

\* The event loop runs every callback that is ready: a finished coroutine is
\* collected, and the handler of the watched publish, once its sleep is
\* over, is resumed however often other publish calls come and go, unless
\* its task is cancelled first.
FairSpec ==
    /\ Spec
    /\ \A p \in Pubs : WF_vars(Return(p))
    /\ SF_vars(Resume(Watched))

\* A bus whose registrations are over: SystemAlertEvent has one of two
\* subscriber lists and any filter list of up to MaxPredicates predicates
\* (none: add_filter was never called for it), and events are published.
FilterLists == UNION { [1..n -> Filters] : n \in 1..MaxPredicates }

FilterInit ==
    /\ subscribers \in { [t \in {"SystemAlertEvent"} |-> l] :
                           l \in { <<"AlertHandler">>,
                                   <<"LoggingHandler", "AlertHandler">> } }
    /\ filters \in {NoList} \cup { [t \in {"SystemAlertEvent"} |-> fs] :
                                     fs \in FilterLists }
    /\ pc = [p \in Pubs |-> "idle"]
    /\ event = [p \in Pubs |-> NoEvent]
    /\ idx = [p \in Pubs |-> 0]
    /\ log = [p \in Pubs |-> <<>>]
    /\ printed = [p \in Pubs |-> <<>>]
    /\ pm = Manager(<<>>)

FilterNext ==
    \/ \E p \in Pubs, e \in Events : publish(p, e)
    \/ \E p \in Pubs : Resume(p)
    \/ \E p \in Pubs : Return(p)

FilterSpec == FilterInit /\ [][FilterNext]_vars

\* ------------------------------------------------- ex4.py: PluginManager
\* plugin.name; nothing keeps two plugins from having the same name.
PluginNames == {"Word Counter", "Sentiment Analyzer"}

\* A plugin is its name and what its two methods do when called: analyze
\* returns a dictionary ("ok"), raises an Exception ("raise") or raises a
\* BaseException that is no Exception ("abort"); the analyze_async
\* coroutine likewise, its BaseException being asyncio.CancelledError.
PluginObjects ==
    [name : PluginNames,
     analyze : {"ok", "raise", "abort"},
     analyze_async : {"ok", "raise", "cancelled"}]

PluginLists == UNION { [1..n -> PluginObjects] : n \in 0..MaxPlugins }

\* d[k] = v.
Put(d, k, v) == [t \in DOMAIN d \cup {k} |-> IF t = k THEN v ELSE d[t]]

\* The dictionary {key: i}: a value that plugin number i produced.
Dict(key, i) == [k \in {key} |-> i]

\* The for loop of lines 55-59 from plugin number i on: the state of the
\* call when the loop is left, at the gather or by an exception.
RECURSIVE SyncLoop(_, _, _)
SyncLoop(l, i, res) ==
    IF i > Len(l) THEN [pc |-> "gather", results |-> res]
    ELSE CASE l[i].analyze = "ok" ->
                SyncLoop(l, i + 1, Put(res, l[i].name, Dict("data", i)))
           [] l[i].analyze = "raise" ->
                SyncLoop(l, i + 1, Put(res, l[i].name, Dict("error", i)))
           [] OTHER -> [pc |-> "raised", results |-> res]

\* isinstance(result, Exception) for the result gather gives for a task.
IsException(outcome) == outcome = "raise"

\* The for loop of lines 65-69 from plugin number i on.
RECURSIVE Collect(_, _, _, _)
Collect(l, tasks, i, res) ==
    IF i > Len(l) THEN res
    ELSE LET key == IF IsException(tasks[i]) THEN "async_error" ELSE "async"
         IN Collect(l, tasks, i + 1,
                    Put(res, l[i].name, Put(res[l[i].name], key, i)))

\* run_analysis up to its await: the synchronous analyzers, then the
\* coroutines are made and handed to gather.
run_analysis ==
    /\ pm.pc = "idle"
    /\ LET r == SyncLoop(pm.plugins, 1, NoList)
       IN pm' = [pm EXCEPT !.pc = r.pc, !.results = r.results]
    /\ UNCHANGED <<subscribers, filters, pc, event, idx, log, printed>>

\* The task of plugin number i runs analyze_async to its end.
analyze_async(i) ==
    /\ pm.pc = "gather"
    /\ pm.tasks[i] = "pending"
    /\ pm' = [pm EXCEPT !.tasks[i] = pm.plugins[i].analyze_async]
    /\ UNCHANGED <<subscribers, filters, pc, event, idx, log, printed>>

\* Every task is over: gather(return_exceptions=True) gives their results
\* and exceptions in list order, lines 65-71 file them and return.
gather_returns ==
    /\ pm.pc = "gather"
    /\ \A i \in 1..Len(pm.plugins) : pm.tasks[i] # "pending"
    /\ pm' = [pm EXCEPT !.pc = "returned",
                        !.results = Collect(pm.plugins, pm.tasks, 1, pm.results)]
    /\ UNCHANGED <<subscribers, filters, pc, event, idx, log, printed>>

PluginInit ==
    /\ subscribers = NoList
    /\ filters = NoList
    /\ pc = [p \in Pubs |-> "idle"]
    /\ event = [p \in Pubs |-> NoEvent]
    /\ idx = [p \in Pubs |-> 0]
    /\ log = [p \in Pubs |-> <<>>]
    /\ printed = [p \in Pubs |-> <<>>]
    /\ pm \in {Manager(l) : l \in PluginLists}

PluginNext ==
    \/ run_analysis
    \/ \E i \in 1..Len(pm.plugins) : analyze_async(i)
    \/ gather_returns

PluginSpec == PluginInit /\ [][PluginNext]_vars

\* ---------------------------------------------------------------- helpers
\* The positions of log L where subscriber s's handle is invoked.
HandlesOf(L, s) == {k \in 1..Len(L) : L[k].op = "handle" /\ L[k].who = s}

\* Candidate number i of log L was accepted: its can_handle is true for e
\* and every predicate evaluated for it returned true.
Accepted(L, e, i) ==
    /\ \E k \in At(L, "can_handle", i) : can_handle(L[k].who, e)
    /\ \A k \in At(L, "filter", i) : ApplyFilter(L[k].who, e) = "true"

Occurrences(seq, x) == Cardinality({k \in 1..Len(seq) : seq[k] = x})

IsPrefix(a, b) == Len(a) <= Len(b) /\ \A k \in 1..Len(a) : a[k] = b[k]

\* The handle invocations and filter evaluations that publish p, suspended
\* in a handler, makes from its resumption on, given the lists of the
\* current state.
Rest(p) ==
    IF pc[p] = "awaiting"
    THEN { SelectSeq(r.log, LAMBDA x : x.op \in {"handle", "filter"}) :
             r \in After(event[p], idx[p], Candidates(event[p])[idx[p]], "ok",
                         log[p], printed[p]) }
    ELSE {}

\* ----------------------------------------------------------------- claims

\* C1: a subscriber registered at an ancestor category A of the event's
\* category C (C # A) is among the candidates of publish(E): its handle is
\* invoked when its can_handle accepts E and no filter rejects E.  Stated
\* of every publish call that returns without suspending.
C1_AncestorSubscribersAreCandidates ==
    [][\A p \in Pubs :
         (pc[p] = "idle" /\ pc'[p] = "done") =>
           LET e == event'[p]
           IN \A A \in Bases(e.type) \ {e.type} :
                \A k \in 1..Len(Get(subscribers, A)) :
                   LET s == subscribers[A][k]
                   IN (/\ can_handle(s, e)
                       /\ \A C \in Bases(e.type) : all(Get(filters, C), e) = "true")
                      => HandlesOf(log'[p], s) # {}]_vars

\* C2: registration order is dispatch order.  subscribe only ever appends
\* to a category's list, every call a publish makes for candidate i is made
\* on the i-th subscriber registered for the category, candidates are taken
\* in increasing i, and the handle of candidate i has returned or raised
\* before any call for a later candidate.
C2_LogInOrder ==
    \A p \in Pubs :
       LET L == log[p]
       IN /\ \A k \in 1..Len(L) :
               L[k].op # "filter" => L[k].who = subscribers[event[p].type][L[k].i]
          /\ \A j, k \in 1..Len(L) : j < k => L[j].i <= L[k].i
          /\ \A j, k \in 1..Len(L) :
               (j < k /\ L[j].op = "handle" /\ L[j].i < L[k].i)
               => \E m \in (j + 1)..(k - 1) :
                     L[m].i = L[j].i /\ L[m].op \in {"return", "raise"}

C2_RegistrationOrderIsDispatchOrder ==
    [][/\ \A t \in DOMAIN subscribers :
            t \in DOMAIN subscribers' /\ IsPrefix(subscribers[t], subscribers'[t])
       /\ C2_LogInOrder']_vars

C2_Witness ==
    \E p \in Pubs :
       /\ pc[p] = "done"
       /\ \E j, k \in 1..Len(log[p]) :
             /\ log[p][j].op = "handle" /\ log[p][k].op = "handle"
             /\ log[p][j].i = 1 /\ log[p][k].i = 2
             /\ log[p][j].who # log[p][k].who

\* C3: failure isolation.  When the handle of candidate i raises an error
\* (an Exception), the next candidate is attempted all the same; a publish
\* that returns has attempted every subscriber after i (can_handle
\* evaluated; handle invoked if accepted and unfiltered); and the failure
\* is printed exactly once, for candidate i.
C3_FailureIsolation ==
    \A p \in Pubs :
       LET L == log[p]
           e == event[p]
       IN \A k \in 1..Len(L) :
            (L[k].op = "raise" /\ At(L, "handle", L[k].i) # {}) =>
              LET i == L[k].i
                  n == Len(subscribers[e.type])
              IN /\ i < n => At(L, "can_handle", i + 1) # {}
                 /\ pc[p] = "done" =>
                      \A j \in (i + 1)..n :
                         /\ At(L, "can_handle", j) # {}
                         /\ Accepted(L, e, j) => At(L, "handle", j) # {}
                 /\ Cardinality({m \in 1..Len(printed[p]) : printed[p][m].i = i}) = 1
                 /\ \A m \in 1..Len(printed[p]) :
                       printed[p][m].i = i => printed[p][m].who = L[k].who

C3_Witness ==
    \E p \in Pubs :
       /\ pc[p] = "done"
       /\ \E j, k \in 1..Len(log[p]) :
             /\ log[p][j].op = "raise" /\ log[p][j].i = 1
             /\ At(log[p], "handle", 1) # {}
             /\ log[p][k].op = "handle" /\ log[p][k].i = 2
       /\ Len(printed[p]) = 1

\* C4: snapshot at resolution time.  A subscribe or add_filter call made
\* while a handler of a dispatch is suspended changes nothing of what that
\* dispatch does from its resumption on: not the subscribers it invokes,
\* not the filters it applies to its remaining candidates.
C4_SnapshotAtResolution ==
    [][\A p \in Pubs :
         (pc[p] = "awaiting" /\ pc'[p] = "awaiting" /\ log'[p] = log[p])
         => Rest(p)' = Rest(p)]_vars

\* C5: a filter registered for category C that returns false for event E
\* blocks the delivery of E to every direct subscriber of C, and changes
\* nothing for subscribers registered under another category: whenever a
\* publish of E (of class C) invokes a handle, every filter registered for
\* C returns true for E; and a candidate that accepts E is delivered E
\* whenever the filters registered for C all return true, whatever is
\* registered for the other categories.
C5_FiltersGateTheirOwnCategory ==
    [][\A p \in Pubs :
         LET e == event'[p]
             new == (Len(log[p]) + 1)..Len(log'[p])
         IN \A k \in new :
              /\ log'[p][k].op = "handle" => all(Get(filters, e.type), e) = "true"
              /\ (/\ log'[p][k].op = "can_handle"
                  /\ can_handle(log'[p][k].who, e)
                  /\ all(Get(filters, e.type), e) = "true")
                 => At(log'[p], "handle", log'[p][k].i) # {}]_vars

C5_Witness ==
    /\ "SystemAlertEvent" \in DOMAIN filters
    /\ \E p \in Pubs :
          /\ pc[p] = "done"
          /\ event[p].type = "SystemAlertEvent"
          /\ all(filters["SystemAlertEvent"], event[p]) = "false"
          /\ Len(Get(subscribers, "SystemAlertEvent")) = 2
          /\ \A i \in 1..2 :
                /\ \E k \in At(log[p], "can_handle", i) : can_handle(log[p][k].who, event[p])
                /\ At(log[p], "handle", i) = {}

\* C6: with LoggingHandler subscribed at Event, AlertHandler at
\* SystemAlertEvent and the filter priority > 3 on SystemAlertEvent, a
\* publish of SystemAlertEvent with priority 5 delivers to both (here: has
\* invoked AlertHandler, and LoggingHandler if the call has returned), with
\* priority 2 delivers to LoggingHandler and not to AlertHandler, and a
\* publish of a UserActionEvent delivers to LoggingHandler and does not
\* consider AlertHandler.
Scenario ==
    /\ subscribers = [t \in {"Event", "SystemAlertEvent"} |->
                        IF t = "Event" THEN <<"LoggingHandler">> ELSE <<"AlertHandler">>]
    /\ filters = [t \in {"SystemAlertEvent"} |-> <<"PriorityAbove3">>]

C6_MainScenario ==
    [][\A p \in Pubs :
         (Scenario /\ pc[p] = "idle" /\ pc'[p] # "idle") =>
           LET e == event'[p]
               L == log'[p]
           IN /\ (e.type = "SystemAlertEvent" /\ e.priority = 5) =>
                   /\ HandlesOf(L, "AlertHandler") # {}
                   /\ pc'[p] = "done" => HandlesOf(L, "LoggingHandler") # {}
              /\ (e.type = "SystemAlertEvent" /\ e.priority = 2) =>
                   /\ HandlesOf(L, "LoggingHandler") # {}
                   /\ HandlesOf(L, "AlertHandler") = {}
              /\ e.type = "UserActionEvent" =>
                   /\ HandlesOf(L, "LoggingHandler") # {}
                   /\ \A k \in 1..Len(L) : L[k].who # "AlertHandler"]_vars

\* C7 as stated: publish never raises to its caller, whatever a
\* subscriber's handle raises, a cancellation-type error included.
C7_PublishNeverRaises == \A p \in Pubs : pc[p] # "raised"

\* C7 as amended: publish never raises to its caller because of an
\* Exception raised by a handle (or by _should_handle): each is caught and
\* printed once for its subscriber; what leaves publish is only a
\* BaseException that is not an Exception, raised inside the handler.
C7_ExceptionsAreCaptured ==
    \A p \in Pubs :
       LET L == log[p]
       IN /\ pc[p] = "raised" => (Len(L) > 0 /\ L[Len(L)].op \in {"abort", "cancelled"})
          /\ \A k \in 1..Len(L) :
               /\ L[k].op = "raise" =>
                    \E m \in 1..Len(printed[p]) :
                       printed[p][m].i = L[k].i /\ printed[p][m].who = L[k].who
               /\ L[k].op \in {"abort", "cancelled"} => (k = Len(L) /\ pc[p] = "raised")

C7_Witness ==
    \E p \in Pubs :
       /\ pc[p] = "done"
       /\ \E k \in 1..Len(log[p]) : log[p][k].op = "raise"
       /\ Len(printed[p]) > 0

\* C8: a publish of an event whose category has no subscriber, exact or
\* ancestor, returns normally, calls no can_handle and no handle, and
\* prints nothing.  (The lists only grow, so a category without
\* subscribers now had none when publish was called.)
C8_NoSubscribersNoCalls ==
    \A p \in Pubs :
       (pc[p] # "idle" /\ \A C \in Bases(event[p].type) : C \notin DOMAIN subscribers)
       => (pc[p] = "done" /\ log[p] = <<>> /\ printed[p] = <<>>)

C8_Witness ==
    \E p \in Pubs :
       /\ pc[p] = "done"
       /\ \A C \in Bases(event[p].type) : C \notin DOMAIN subscribers
       /\ DOMAIN subscribers # {}
       /\ log[p] = <<>>

\* C9: registration is not deduplicated.  A publish that returns has
\* invoked the handle of each subscriber that accepts the event once for
\* each of its registrations under the event's category, provided no
\* filter of the category rejects the event.
C9_OneInvocationPerRegistration ==
    \A p \in Pubs :
       (pc[p] = "done" /\ all(Get(filters, event[p].type), event[p]) = "true") =>
          \A s \in Subscribers :
             can_handle(s, event[p]) =>
                Cardinality(HandlesOf(log[p], s))
                  = Occurrences(Get(subscribers, event[p].type), s)

C9_Witness ==
    \E p \in Pubs : \E s \in Subscribers :
       /\ pc[p] = "done"
       /\ Occurrences(Get(subscribers, event[p].type), s) = 2
       /\ Cardinality(HandlesOf(log[p], s)) = 2

\* C10: at most once.  Within one publish each subscription entry (the
\* i-th registration of the category) has its handle invoked at most once,
\* and its can_handle evaluated at most once, under every interleaving
\* with subscribe, add_filter and other publish calls.
C10_AtMostOnce ==
    \A p \in Pubs : \A i \in 1..Len(log[p]) :
       /\ Cardinality(At(log[p], "handle", i)) <= 1
       /\ Cardinality(At(log[p], "can_handle", i)) <= 1

C10_Witness ==
    \E p, q \in Pubs :
       /\ p # q
       /\ pc[p] = "awaiting" /\ pc[q] = "awaiting"
       /\ event[p].type = event[q].type
       /\ idx[p] = 1 /\ idx[q] = 2
       /\ Cardinality(At(log[q], "handle", 1)) = 1
       /\ Cardinality(At(log[q], "handle", 2)) = 1

\* C11: dispatch completeness.  A publish returns only after every
\* candidate of the event's category has been attempted (can_handle
\* evaluated, and handle invoked and ended when the candidate is accepted);
\* it does not return after the first handler that succeeds or the first
\* that fails.  And a publish suspended in a handler that terminates goes
\* on to its end: it returns, or raises what is not an Exception.
C11_AllAttempted ==
    \A p \in Pubs :
       pc[p] = "done" =>
          \A i \in 1..Len(Get(subscribers, event[p].type)) :
             /\ At(log[p], "can_handle", i) # {}
             /\ Accepted(log[p], event[p], i) =>
                   /\ At(log[p], "handle", i) # {}
                   /\ At(log[p], "return", i) \cup At(log[p], "raise", i) # {}

C11_DispatchCompleteness ==
    /\ []C11_AllAttempted
    /\ (pc[Watched] = "awaiting") ~> (pc[Watched] \in {"done", "raised"})

C11_Witness ==
    \E p \in Pubs :
       /\ pc[p] = "done"
       /\ Len(Get(subscribers, event[p].type)) = 2
       /\ \E k \in At(log[p], "return", 1) : log[p][k].who = "AlertHandler"
       /\ At(log[p], "raise", 2) # {}

\* The log entries that end a handle invocation.
HandleEnds == {"return", "raise", "abort", "cancelled"}

\* C12: within one publish the invocations are strictly sequential.  At
\* most one handle of the dispatch is in flight, and it is the last thing
\* the dispatch started; the handle of a candidate has ended (returned or
\* raised) before can_handle, a filter or handle of any other candidate
\* starts, also when the handler suspends.
C12_StrictlySequential ==
    \A p \in Pubs :
       LET L == log[p]
           InFlight == { i \in {L[k].i : k \in 1..Len(L)} :
                           /\ At(L, "handle", i) # {}
                           /\ \A k \in 1..Len(L) :
                                 L[k].i = i => L[k].op \notin HandleEnds }
       IN /\ Cardinality(InFlight) <= 1
          /\ InFlight # {} =>
                /\ pc[p] = "awaiting"
                /\ InFlight = {idx[p]}
                /\ L[Len(L)].op = "handle"
          /\ \A j, k \in 1..Len(L) :
                (j < k /\ L[j].op = "handle" /\ L[k].i # L[j].i) =>
                   \E m \in (j + 1)..(k - 1) :
                      L[m].i = L[j].i /\ L[m].op \in HandleEnds

C12_Witness ==
    \E p \in Pubs :
       /\ pc[p] = "awaiting"
       /\ idx[p] = 2
       /\ \E k \in At(log[p], "return", 1) : log[p][k].who = "AlertHandler"
       /\ log[p][Len(log[p])] = Entry("handle", 2, "AlertHandler")

\* C13: cancellation.  When a publish is cancelled while a handler is in
\* flight, the dispatch starts no further can_handle, filter or handle; the
\* handler in flight is not abandoned, it runs to its own return or raise;
\* and what the subscribers attempted before have done (the log and the
\* printed errors) is kept.
C13_CancelKeepsInFlightHandler ==
    [][\A p \in Pubs :
         (pc[p] = "awaiting" /\ \E k \in 1..Len(log'[p]) : log'[p][k].op = "cancelled")
         => /\ IsPrefix(log[p], log'[p])
            /\ printed'[p] = printed[p]
            /\ \A k \in (Len(log[p]) + 1)..Len(log'[p]) :
                  log'[p][k].op \notin {"can_handle", "filter", "handle"}
            /\ At(log'[p], "return", idx[p]) \cup At(log'[p], "raise", idx[p]) # {}
      ]_vars

\* C14: filter evaluation.  The evaluation for an event is true, and the
\* handle of a subscriber that accepts the event is invoked, exactly when
\* every predicate registered for the event's own category returns true;
\* the predicates are called in registration order, up to the first that
\* does not return true.  With no filter registered for the category the
\* evaluation is true: nothing is blocked.
C14_FiltersAreAConjunction ==
    \A p \in Pubs :
       LET L == log[p]
           e == event[p]
           fs == Get(filters, e.type)
           Pass == \A m \in 1..Len(fs) : ApplyFilter(fs[m], e) = "true"
       IN \A k \in 1..Len(L) :
            (L[k].op = "can_handle" /\ can_handle(L[k].who, e)) =>
               LET called == SelectSeq(L, LAMBDA x : x.op = "filter" /\ x.i = L[k].i)
               IN /\ (At(L, "handle", L[k].i) # {}) <=> Pass
                  /\ Len(called) <= Len(fs)
                  /\ \A m \in 1..Len(called) :
                        /\ called[m].who = fs[m]
                        /\ m < Len(called) => ApplyFilter(fs[m], e) = "true"
                  /\ Len(called) < Len(fs) =>
                        /\ called # <<>>
                        /\ ApplyFilter(fs[Len(called)], e) # "true"

C14_Witness ==
    \E p \in Pubs :
       /\ pc[p] = "done"
       /\ event[p] = [type |-> "SystemAlertEvent", priority |-> 2]
       /\ Get(filters, "SystemAlertEvent") = <<"PriorityAbove1", "PriorityAbove3">>
       /\ At(log[p], "can_handle", 1) # {}
       /\ Cardinality(At(log[p], "filter", 1)) = 2
       /\ At(log[p], "handle", 1) = {}

\* C15: filters registered for a category C apply to every event whose
\* category is C or a refinement of C: whenever a publish of E invokes a
\* handle, no predicate registered for the category of E or for one of its
\* ancestors (the root Event among them) returns false for E.
C15_AncestorFiltersApply ==
    [][\A p \in Pubs :
         \A k \in (Len(log[p]) + 1)..Len(log'[p]) :
            log'[p][k].op = "handle" =>
               \A C \in Bases(event'[p].type) :
                  \A m \in 1..Len(Get(filters, C)) :
                     ApplyFilter(Get(filters, C)[m], event'[p]) # "false"]_vars

\* C15, amended: a filter gates the events of exactly its own class.  A
\* predicate registered for a strict ancestor of the event's class is not
\* consulted: a candidate that accepts E is delivered E when the predicates
\* of E's own class pass, also when one registered for an ancestor returns
\* false for E.
C15_FiltersApplyToExactClassOnly ==
    [][\A p \in Pubs :
         LET e == event'[p]
             L == log'[p]
         IN \A k \in (Len(log[p]) + 1)..Len(L) :
              (/\ L[k].op = "can_handle"
               /\ can_handle(L[k].who, e)
               /\ \E C \in Bases(e.type) \ {e.type} : all(Get(filters, C), e) = "false"
               /\ \A m \in 1..Len(Get(filters, e.type)) :
                     ApplyFilter(Get(filters, e.type)[m], e) = "true")
              => /\ At(L, "handle", L[k].i) # {}
                 /\ Cardinality(At(L, "filter", L[k].i)) = Len(Get(filters, e.type))]_vars

C15_Witness ==
    \E p \in Pubs :
       /\ event[p] = [type |-> "SystemAlertEvent", priority |-> 2]
       /\ Get(filters, "Event") = <<"PriorityAbove3">>
       /\ At(log[p], "filter", 1) = {}
       /\ \E k \in At(log[p], "handle", 1) : log[p][k].who = "AlertHandler"

\* C16: a filter predicate that raises counts as a filter failure.  The
\* handle of the subscriber being evaluated is not invoked; the error is
\* caught and printed once for that subscriber and is not what a publish
\* raises to its caller; and the dispatch goes on with the next subscriber.
C16_RaisingFilterBlocksQuietly ==
    \A p \in Pubs :
       LET L == log[p]
           e == event[p]
       IN \A k \in 1..Len(L) :
            (L[k].op = "filter" /\ ApplyFilter(L[k].who, e) = "raise") =>
               LET i == L[k].i
               IN /\ At(L, "handle", i) = {}
                  /\ Cardinality(At(L, "raise", i)) = 1
                  /\ Cardinality({m \in 1..Len(printed[p]) : printed[p][m].i = i}) = 1
                  /\ pc[p] = "raised" => L[Len(L)].i # i
                  /\ i < Len(subscribers[e.type]) => At(L, "can_handle", i + 1) # {}

C16_Witness ==
    \E p \in Pubs :
       /\ pc[p] = "done"
       /\ \E k \in At(log[p], "filter", 1) : log[p][k].who = "Raising"
       /\ At(log[p], "raise", 1) # {}
       /\ \E k \in At(log[p], "filter", 2) : log[p][k].who = "Raising"
       /\ Len(printed[p]) = 2

\* C17: the subscriber's own check comes first.  For every candidate
\* can_handle is evaluated before any filter and before handle; when it
\* returns false the subscriber is skipped: no filter is evaluated for it,
\* its handle is not invoked, nothing is printed for it, and the dispatch
\* goes on with the next subscriber.
C17_SelfCheckFirst ==
    \A p \in Pubs :
       LET L == log[p]
           e == event[p]
       IN \A k \in 1..Len(L) :
            /\ L[k].op \in {"filter", "handle"} =>
                  \E j \in At(L, "can_handle", L[k].i) : j < k
            /\ (/\ L[k].op = "can_handle"
                /\ ~can_handle_raises(L[k].who, e)
                /\ ~can_handle(L[k].who, e)) =>
                  LET i == L[k].i
                  IN /\ At(L, "filter", i) = {}
                     /\ At(L, "handle", i) = {}
                     /\ \A m \in 1..Len(printed[p]) : printed[p][m].i # i
                     /\ i < Len(subscribers[e.type]) => At(L, "can_handle", i + 1) # {}

C17_Witness ==
    \E p \in Pubs :
       /\ event[p].type \in DOMAIN filters
       /\ \E k \in At(log[p], "can_handle", 1) : log[p][k].who = "UserActionHandler"
       /\ At(log[p], "filter", 1) = {}
       /\ At(log[p], "can_handle", 2) # {}
       /\ At(log[p], "filter", 2) # {}

\* Dictionary dd is d with one entry appended to the list of one key.
AppendsOne(d, dd) ==
    /\ \A t \in DOMAIN d : t \in DOMAIN dd /\ IsPrefix(d[t], dd[t])
    /\ \E t \in DOMAIN dd :
          /\ Len(dd[t]) = Len(Get(d, t)) + 1
          /\ \A u \in DOMAIN dd \ {t} : u \in DOMAIN d /\ dd[u] = d[u]

\* C18: frame.  Only publish triggers dispatch: a step that changes the
\* subscriber lists (subscribe) appends one entry to one category's list,
\* leaves the other categories' lists and every filter list as they are,
\* and invokes no can_handle, filter or handle; a step that changes the
\* filter lists (add_filter) appends one predicate to one category's list,
\* leaves the subscriber lists as they are and invokes nothing; a step of
\* a publish leaves every list as it is.  The lists are append-only.
C18_Frame ==
    [][/\ subscribers' # subscribers =>
            /\ AppendsOne(subscribers, subscribers')
            /\ UNCHANGED <<filters, pc, event, idx, log, printed>>
       /\ filters' # filters =>
            /\ AppendsOne(filters, filters')
            /\ UNCHANGED <<subscribers, pc, event, idx, log, printed>>
       /\ <<pc, event, idx, log, printed>>' # <<pc, event, idx, log, printed>> =>
            UNCHANGED <<subscribers, filters>>]_vars

C18_Witness ==
    /\ Cardinality(DOMAIN subscribers) = 2
    /\ DOMAIN filters # {}
    /\ \E p \in Pubs :
          /\ pc[p] = "awaiting"
          /\ At(log[p], "filter", 1) # {}
          /\ At(log[p], "handle", 1) # {}

\* Publish p has, for each of the idx[p] candidates it has reached, asked
\* the subscriber registered at that place of its own category's list, and
\* invoked the handle of exactly those that were accepted.
OwnAccepted(p) ==
    \A i \in 1..idx[p] :
       /\ \E k \in At(log[p], "can_handle", i) :
             log[p][k].who = subscribers[event[p].type][i]
       /\ \A k \in At(log[p], "handle", i) :
             log[p][k].who = subscribers[event[p].type][i]
       /\ At(log[p], "handle", i) # {} <=> Accepted(log[p], event[p], i)

\* C19: concurrent publish calls are independent.  When publish calls are
\* in flight together and interleave where handlers suspend, each invokes
\* exactly its own accepted candidates, in registration order; and a step
\* of one publish, a handler failure in it included, changes nothing of
\* another publish: not what it has invoked, not where it stands, not what
\* it goes on to invoke.
C19_PublishesAreIndependent ==
    [][/\ \A p, q \in Pubs :
            (p # q /\ <<pc[q], log[q]>>' # <<pc[q], log[q]>>) =>
               /\ <<pc[p], event[p], idx[p], log[p], printed[p]>>'
                     = <<pc[p], event[p], idx[p], log[p], printed[p]>>
               /\ Rest(p)' = Rest(p)
       /\ \A p \in Pubs :
            /\ OwnAccepted(p)'
            /\ \A j, k \in 1..Len(log'[p]) : j < k => log'[p][j].i <= log'[p][k].i]_vars

C19_Witness ==
    \E p, q \in Pubs :
       /\ p # q
       /\ event[p] = event[q]
       /\ pc[q] = "awaiting" /\ idx[q] = 2
       /\ log[q][Len(log[q])] = Entry("handle", 2, "AlertHandler")
       /\ pc[p] = "raised"
       /\ log[p][Len(log[p])] = Entry("abort", 1, "Faulty")

\* C20: a subscriber whose can_handle raises (an Exception) is isolated
\* like a failing handler.  No filter is evaluated for it and its handle is
\* not invoked; the error is caught and printed once for it and is not what
\* a publish raises to its caller; and every later subscriber of the
\* dispatch is still attempted: a publish that returns has asked each of
\* them and invoked the handle of those that were accepted.
C20_RaisingCheckIsIsolated ==
    \A p \in Pubs :
       LET L == log[p]
           e == event[p]
           n == Len(Get(subscribers, e.type))
       IN \A k \in 1..Len(L) :
            (L[k].op = "can_handle" /\ can_handle_raises(L[k].who, e)) =>
               LET i == L[k].i
               IN /\ At(L, "filter", i) = {}
                  /\ At(L, "handle", i) = {}
                  /\ At(L, "raise", i) = {k + 1}
                  /\ Cardinality({m \in 1..Len(printed[p]) : printed[p][m].i = i}) = 1
                  /\ pc[p] = "raised" => L[Len(L)].i > i
                  /\ i < n => At(L, "can_handle", i + 1) # {}
                  /\ pc[p] = "done" =>
                        \A j \in (i + 1)..n :
                           /\ At(L, "can_handle", j) # {}
                           /\ Accepted(L, e, j) => At(L, "handle", j) # {}

C20_Witness ==
    \E p \in Pubs :
       /\ pc[p] = "awaiting"
       /\ \E k \in At(log[p], "can_handle", 1) : log[p][k].who = "BadCheck"
       /\ printed[p] = <<Entry("error", 1, "BadCheck")>>
       /\ log[p][Len(log[p])] = Entry("handle", 2, "AlertHandler")

\* C21: run_analysis returns a result entry for every loaded plugin,
\* whatever fails.  It never raises because of a plugin failure; and in
\* what it returns every plugin has an entry under its name, with the key
\* "error" when its analyze raised, with the key "async_error" when its
\* analyze_async raised, and with the key "async" when it did not.
C21_EveryPluginGetsItsEntry ==
    /\ pm.pc # "raised"
    /\ pm.pc = "returned" =>
          \A i \in 1..Len(pm.plugins) :
             LET pl == pm.plugins[i]
             IN /\ pl.name \in DOMAIN pm.results
                /\ pl.analyze # "ok" => "error" \in DOMAIN pm.results[pl.name]
                /\ pl.analyze_async # "ok" =>
                      "async_error" \in DOMAIN pm.results[pl.name]
                /\ pl.analyze_async = "ok" => "async" \in DOMAIN pm.results[pl.name]

====
